---- MODULE Spec2Model ----
(***************************************************************************)
(* A model of the fitness-music HTTP backend (src/server_new.py): the      *)
(* seven tables, the password hasher, the bearer token, and one action per *)
(* request handler.  Every handler is translated as a whole: the token     *)
(* dependency, the try block, the except clause, the commit.               *)
(***************************************************************************)
EXTENDS Integers, Sequences, FiniteSets, TLC

VARIABLES users, workouts, goals, songs, playlists, playlist_songs, categories,
          now, issued, regs, registered, resp

tables == <<users, workouts, goals, songs, playlists, playlist_songs, categories>>
vars == <<users, workouts, goals, songs, playlists, playlist_songs, categories,
          now, issued, regs, registered, resp>>

(***************************************************************************)
(* Bounds of the model.                                                    *)
(***************************************************************************)
MaxTime == 1800
ClockStep == 900
MaxIssued == 2
MaxInflight == 2
MaxRows == 2
MaxSongRows == 1
MaxRowId == 3

(***************************************************************************)
(* Program constants.                                                      *)
(***************************************************************************)
SECRET_KEY == "your-secret-key"
ACCESS_TOKEN_EXPIRE_MINUTES == 30
\* passlib's bcrypt handler: truncate_size; bytes beyond it do not reach the digest
BcryptTruncateSize == 72

(***************************************************************************)
(* Input values.                                                           *)
(***************************************************************************)
Usernames == {"alice", "bob"}
Emails == {"alice@x.com", "bob@x.com"}
EmailOf(u) == IF u = "alice" THEN "alice@x.com" ELSE "bob@x.com"

\* passwords are byte strings
PwShortA == <<112, 119, 49>>
PwShortB == <<112, 119, 50>>
PwLongA == [i \in 1..(BcryptTruncateSize + 1) |-> 97]
PwLongB == [i \in 1..(BcryptTruncateSize + 1) |-> IF i = BcryptTruncateSize + 1 THEN 98 ELSE 97]
PwNul == <<112, 0>>
Passwords == {PwShortA, PwShortB, PwLongA, PwLongB, PwNul}
Salts == {1, 2}

None == <<>>
Some(n) == <<n>>

SeqToSet(s) == {s[i] : i \in 1..Len(s)}

\* an INTEGER PRIMARY KEY column: SQLite assigns the largest rowid in use plus one
NextId(table) ==
    IF Len(table) = 0 THEN 1
    ELSE (CHOOSE m \in {table[i].id : i \in 1..Len(table)} :
             \A i \in 1..Len(table) : table[i].id <= m) + 1

(***************************************************************************)
(* Password hasher: CryptContext(schemes=["bcrypt"]).                      *)
(***************************************************************************)
HasNul(secret) == \E i \in 1..Len(secret) : secret[i] = 0

Truncate(secret) ==
    IF Len(secret) > BcryptTruncateSize THEN SubSeq(secret, 1, BcryptTruncateSize) ELSE secret

\* the bcrypt digest: a function of the salt and the truncated secret
BcryptDigest(salt, secret) == <<salt, Truncate(secret)>>

\* get_password_hash: defined for secrets without a NUL byte (passlib raises otherwise)
get_password_hash(password, salt) == [salt |-> salt, digest |-> BcryptDigest(salt, password)]

\* verify_password: re-hash with the salt embedded in the stored hash
verify_password(plain_password, hashed_password) ==
    BcryptDigest(hashed_password.salt, plain_password) = hashed_password.digest

(***************************************************************************)
(* Bearer tokens: jwt.encode / jwt.decode with HS256.                      *)
(***************************************************************************)
\* the MAC of a payload under a key: equal exactly when key and payload are equal
Hmac(key, sub, exp) == <<key, sub, exp>>

JwtEncode(sub, exp, key) == [kind |-> "jwt", sub |-> sub, exp |-> exp, mac |-> Hmac(key, sub, exp)]

NoToken == [kind |-> "none", sub |-> "", exp |-> 0, mac |-> <<>>]
GarbageToken == [kind |-> "garbage", sub |-> "", exp |-> 0, mac |-> <<>>]

create_access_token(sub) ==
    JwtEncode(sub, now + ACCESS_TOKEN_EXPIRE_MINUTES * 60, SECRET_KEY)

\* jwt.decode(token, SECRET_KEY, algorithms=[ALGORITHM]): the exception it raises
\* ("none" when it returns the payload); the signature is verified before exp
JwtDecodeExc(token) ==
    IF token.kind # "jwt" THEN "DecodeError"
    ELSE IF token.mac # Hmac(SECRET_KEY, token.sub, token.exp) THEN "InvalidSignatureError"
    ELSE IF token.exp <= now THEN "ExpiredSignatureError"
    ELSE "none"

JwtErrors == {"DecodeError", "InvalidSignatureError", "ExpiredSignatureError"}

\* `import jwt` binds PyJWT, whose module has no attribute JWTError
JwtModuleHasJWTError == FALSE

\* The status a handler answers when exception exc is raised inside
\*     try: ... except jwt.JWTError: raise HTTPException(401)
\* Matching the except clause evaluates jwt.JWTError; when the attribute is
\* missing that evaluation raises AttributeError and the request ends in 500.
ExceptJWTError(exc) ==
    IF ~JwtModuleHasJWTError THEN 500
    ELSE IF exc \in JwtErrors THEN 401
    ELSE IF exc = "HTTPException404" THEN 404
    ELSE 500

ExceptDetail(exc, status, detail401) ==
    IF status = 401 THEN detail401
    ELSE IF status = 404 THEN "not found"
    ELSE "Internal Server Error"

(***************************************************************************)
(* Responses.  resp records the last request and its answer.               *)
(***************************************************************************)
Response(op, token, arg, status, detail, body) ==
    [op |-> op, token |-> token, arg |-> arg, status |-> status, detail |-> detail, body |-> body]

NoResponse == Response("none", NoToken, <<>>, 0, "", <<>>)

\* The answer of a protected handler: oauth2_scheme answers 401 when the request
\* carries no bearer token; an exception raised in the try block reaches the
\* except clause; otherwise the handler's own return value.
Answer(op, token, arg, exc, detail401, okDetail, okBody) ==
    IF token.kind = "none"
      THEN Response(op, token, arg, 401, "Not authenticated", <<>>)
    ELSE IF exc # "none"
      THEN Response(op, token, arg, ExceptJWTError(exc),
                    ExceptDetail(exc, ExceptJWTError(exc), detail401), <<>>)
    ELSE Response(op, token, arg, 200, okDetail, okBody)

\* whether the handler body ran to its end (and so committed what it wrote)
Completed(token, exc) == token.kind # "none" /\ exc = "none"

(***************************************************************************)
(* Users.                                                                  *)
(***************************************************************************)
\* db.query(User).filter(User.username == username).first(): <<>> or <<row>>
UserByUsername(username) ==
    LET found == SelectSeq(users, LAMBDA u : u.username = username)
    IN  IF Len(found) = 0 THEN <<>> ELSE <<Head(found)>>

\* the INSERT of a user row at commit: the UNIQUE constraints of username and email
UserInsertExc(username, email) ==
    IF \E i \in 1..Len(users) : users[i].username = username \/ users[i].email = email
      THEN "IntegrityError" ELSE "none"

NewUserRow(username, email, hashed_password) ==
    [id |-> NextId(users), username |-> username, email |-> email,
     hashed_password |-> hashed_password]

\* the exception create_user ends with ("none": it returns its message)
CreateUserExc(username, email, password) ==
    IF HasNul(password) THEN "PasswordValueError" ELSE UserInsertExc(username, email)

CreateUserResponse(username, email, password, exc) ==
    LET arg == [username |-> username, email |-> email, password |-> password]
    IN  IF exc = "none"
          THEN Response("create_user", NoToken, arg, 200, "User created successfully", <<>>)
          ELSE Response("create_user", NoToken, arg, 500, "Internal Server Error", <<>>)

\* POST /users/ handled without another request in between
create_user(username, email, password, salt) ==
    LET exc == CreateUserExc(username, email, password) IN
    /\ users' = IF exc = "none"
                  THEN Append(users, NewUserRow(username, email, get_password_hash(password, salt)))
                  ELSE users
    /\ registered' = IF exc = "none" THEN [registered EXCEPT ![username] = Some(password)]
                      ELSE registered
    /\ resp' = CreateUserResponse(username, email, password, exc)
    /\ UNCHANGED <<workouts, goals, songs, playlists, playlist_songs, categories, now, issued, regs>>

\* --- POST /users/ in two steps, for requests that overlap -------------------
NoHash == [salt |-> 0, digest |-> <<>>]
\* a request slot: st is the handler's position; fresh (the username was unused when
\* the request began) and peers (the requests pending at the same time) are history
IdleReg == [st |-> "idle", username |-> "", email |-> "", password |-> <<>>,
            hashed_password |-> NoHash, status |-> 0, fresh |-> FALSE, peers |-> {}]

\* up to db.add(db_user): the hash is computed and the row is pending in the session
create_user_begin(slot, username, email, password, salt) ==
    /\ regs[slot].st # "pending"
    /\ LET nul == HasNul(password)
           other == {s \in DOMAIN regs : s # slot /\ regs[s].st = "pending"}
           mine == [st |-> IF nul THEN "done" ELSE "pending",
                    username |-> username, email |-> email, password |-> password,
                    hashed_password |-> IF nul THEN NoHash ELSE get_password_hash(password, salt),
                    status |-> IF nul THEN 500 ELSE 0,
                    fresh |-> UserByUsername(username) = <<>>,
                    peers |-> IF nul THEN {} ELSE other]
       IN  /\ regs' = [s \in DOMAIN regs |->
                         IF s = slot THEN mine
                         ELSE IF s \in other /\ ~nul
                           THEN [regs[s] EXCEPT !.peers = regs[s].peers \cup {slot}]
                         ELSE regs[s]]
           /\ resp' = IF nul THEN CreateUserResponse(username, email, password, "PasswordValueError")
                      ELSE resp
    /\ UNCHANGED <<tables, now, issued, registered>>

\* db.commit(): the INSERT, atomic in the store
create_user_commit(slot) ==
    /\ regs[slot].st = "pending"
    /\ LET r == regs[slot]
           exc == UserInsertExc(r.username, r.email)
       IN  /\ users' = IF exc = "none"
                         THEN Append(users, NewUserRow(r.username, r.email, r.hashed_password))
                         ELSE users
           /\ regs' = [regs EXCEPT ![slot].st = "done",
                                   ![slot].status = IF exc = "none" THEN 200 ELSE 500]
           /\ registered' = IF exc = "none" THEN [registered EXCEPT ![r.username] = Some(r.password)]
                             ELSE registered
           /\ resp' = CreateUserResponse(r.username, r.email, r.password, exc)
    /\ UNCHANGED <<workouts, goals, songs, playlists, playlist_songs, categories, now, issued>>

\* --- POST /token ---------------------------------------------------------------
LoginExc(username, password) ==
    LET user == UserByUsername(username) IN
    IF user = <<>> THEN "HTTPException401"
    ELSE IF HasNul(password) THEN "PasswordValueError"
    ELSE IF ~verify_password(password, user[1].hashed_password) THEN "HTTPException401"
    ELSE "none"

login(username, password) ==
    LET exc == LoginExc(username, password)
        arg == [username |-> username, password |-> password]
        access_token == create_access_token(UserByUsername(username)[1].username)
    IN
    /\ resp' = IF exc = "none"
                 THEN Response("login", NoToken, arg, 200, "",
                               <<[access_token |-> access_token, token_type |-> "bearer"]>>)
               ELSE IF exc = "HTTPException401"
                 THEN Response("login", NoToken, arg, 401, "Incorrect username or password", <<>>)
               ELSE Response("login", NoToken, arg, 500, "Internal Server Error", <<>>)
    /\ issued' = IF exc = "none" THEN issued \cup {access_token} ELSE issued
    /\ UNCHANGED <<tables, now, regs, registered>>

\* the clock the handlers read with datetime.utcnow()
Tick ==
    /\ now + ClockStep <= MaxTime
    /\ now' = now + ClockStep
    /\ UNCHANGED <<tables, issued, regs, registered, resp>>

(***************************************************************************)
(* The start of every try block.                                           *)
(***************************************************************************)
\* jwt.decode, and nothing that reads the user: the song, category and
\* playlist-song handlers
DecodeOnlyExc(token) == JwtDecodeExc(token)

\* jwt.decode, the user looked up by payload.get("sub"), and user.id read
\* (AttributeError on None when no user has that username)
OwnerExc(token) ==
    LET e == JwtDecodeExc(token) IN
    IF e # "none" THEN e
    ELSE IF UserByUsername(token.sub) = <<>> THEN "AttributeError"
    ELSE "none"

\* user.id
CallerId(token) == UserByUsername(token.sub)[1].id

RECURSIVE SumSeq(_)
SumSeq(s) == IF Len(s) = 0 THEN 0 ELSE Head(s) + SumSeq(Tail(s))

(***************************************************************************)
(* Workouts.                                                               *)
(***************************************************************************)
\* the list query without its user_id filter
OwnedWorkouts_unfiltered(uid) == workouts

OwnedWorkouts(uid) == SelectSeq(workouts, LAMBDA w : w.user_id = uid)

\* db.query(Workout).filter(Workout.id == workout_id, Workout.user_id == user.id)
WorkoutQuery(workout_id, uid) ==
    SelectSeq(workouts, LAMBDA w : w.id = workout_id /\ w.user_id = uid)

\* the try block of get/update/delete up to the `is None` test
WorkoutLookupExc(token, workout_id) ==
    LET e == OwnerExc(token) IN
    IF e # "none" THEN e
    ELSE IF WorkoutQuery(workout_id, CallerId(token)) = <<>> THEN "HTTPException404"
    ELSE "none"

\* the constructor call without music_playlist_id
NewWorkoutRow_no_playlist(uid, workout) ==
    [id |-> NextId(workouts), user_id |-> uid,
     workout_type |-> workout.workout_type, duration |-> workout.duration,
     calories_burned |-> workout.calories_burned, date |-> now,
     music_playlist_id |-> None]

NewWorkoutRow(uid, workout) ==
    [id |-> NextId(workouts), user_id |-> uid,
     workout_type |-> workout.workout_type, duration |-> workout.duration,
     calories_burned |-> workout.calories_burned, date |-> now,
     music_playlist_id |-> workout.playlist_id]

\* POST /workouts/
create_workout(token, workout) ==
    LET exc == OwnerExc(token) IN
    /\ workouts' = IF Completed(token, exc)
                     THEN Append(workouts, NewWorkoutRow(CallerId(token), workout))
                     ELSE workouts
    /\ resp' = Answer("create_workout", token, workout, exc, "Invalid token",
                      "Workout logged successfully", <<>>)
    /\ UNCHANGED <<users, goals, songs, playlists, playlist_songs, categories, now, issued, regs, registered>>

\* GET /workouts/{workout_id}: the row as the ORM object holds it
GetWorkoutResponse(token, workout_id) ==
    LET exc == WorkoutLookupExc(token, workout_id) IN
    Answer("get_workout", token, workout_id, exc, "Could not validate credentials", "",
           IF Completed(token, exc)
             THEN <<Head(WorkoutQuery(workout_id, CallerId(token)))>> ELSE <<>>)

get_workout(token, workout_id) ==
    /\ resp' = GetWorkoutResponse(token, workout_id)
    /\ UNCHANGED <<tables, now, issued, regs, registered>>

\* the assignments of update_workout
UpdatedWorkoutRow(row, workout) ==
    [row EXCEPT !.workout_type = workout.workout_type,
                !.duration = workout.duration,
                !.calories_burned = workout.calories_burned]

\* PUT /workouts/{workout_id}
update_workout(token, workout_id, workout) ==
    LET exc == WorkoutLookupExc(token, workout_id)
        target == Head(WorkoutQuery(workout_id, CallerId(token)))
    IN
    /\ workouts' = IF Completed(token, exc)
                     THEN [i \in 1..Len(workouts) |->
                             IF workouts[i] = target THEN UpdatedWorkoutRow(target, workout)
                             ELSE workouts[i]]
                     ELSE workouts
    /\ resp' = Answer("update_workout", token, [workout_id |-> workout_id, workout |-> workout],
                      exc, "Could not validate credentials", "",
                      IF Completed(token, exc) THEN <<UpdatedWorkoutRow(target, workout)>> ELSE <<>>)
    /\ UNCHANGED <<users, goals, songs, playlists, playlist_songs, categories, now, issued, regs, registered>>

\* DELETE /workouts/{workout_id}
delete_workout(token, workout_id) ==
    LET exc == WorkoutLookupExc(token, workout_id)
        target == Head(WorkoutQuery(workout_id, CallerId(token)))
    IN
    /\ workouts' = IF Completed(token, exc)
                     THEN SelectSeq(workouts, LAMBDA w : w # target)
                     ELSE workouts
    /\ resp' = Answer("delete_workout", token, workout_id, exc, "Could not validate credentials",
                      "Workout deleted successfully", <<>>)
    /\ UNCHANGED <<users, goals, songs, playlists, playlist_songs, categories, now, issued, regs, registered>>

\* response_model=List[WorkoutResponse]
WorkoutResponse(w) ==
    [id |-> w.id, workout_type |-> w.workout_type, duration |-> w.duration,
     calories_burned |-> w.calories_burned, date |-> w.date,
     music_playlist_id |-> w.music_playlist_id]

WorkoutResponses(rows) == [i \in 1..Len(rows) |-> WorkoutResponse(rows[i])]

\* GET /workouts/
get_workouts(token) ==
    LET exc == OwnerExc(token) IN
    /\ resp' = Answer("get_workouts", token, <<>>, exc, "Invalid token", "",
                      IF Completed(token, exc)
                        THEN WorkoutResponses(OwnedWorkouts(CallerId(token))) ELSE <<>>)
    /\ UNCHANGED <<tables, now, issued, regs, registered>>

Durations(rows) == [i \in 1..Len(rows) |-> rows[i].duration]
Calories(rows) == [i \in 1..Len(rows) |-> rows[i].calories_burned]

\* GET /workouts/stats/total
get_workout_stats(token) ==
    LET exc == OwnerExc(token)
        mine == OwnedWorkouts(CallerId(token))
    IN
    /\ resp' = Answer("get_workout_stats", token, <<>>, exc, "Could not validate credentials", "",
                      IF Completed(token, exc)
                        THEN <<[total_workouts |-> Len(mine),
                                total_duration_minutes |-> SumSeq(Durations(mine)),
                                total_calories_burned |-> SumSeq(Calories(mine))]>>
                        ELSE <<>>)
    /\ UNCHANGED <<tables, now, issued, regs, registered>>

(***************************************************************************)
(* Goals.                                                                  *)
(***************************************************************************)
OwnedGoals(uid) == SelectSeq(goals, LAMBDA g : g.user_id = uid)

\* POST /goals/
create_goal(token, goal) ==
    LET exc == OwnerExc(token) IN
    /\ goals' = IF Completed(token, exc)
                  THEN Append(goals, [id |-> NextId(goals), user_id |-> CallerId(token),
                                      goal_type |-> goal.goal_type,
                                      target_value |-> goal.target_value,
                                      deadline |-> goal.deadline])
                  ELSE goals
    /\ resp' = Answer("create_goal", token, goal, exc, "Invalid token", "Goal created successfully", <<>>)
    /\ UNCHANGED <<users, workouts, songs, playlists, playlist_songs, categories, now, issued, regs, registered>>

\* GET /goals/
get_goals(token) ==
    LET exc == OwnerExc(token) IN
    /\ resp' = Answer("get_goals", token, <<>>, exc, "Invalid token", "",
                      IF Completed(token, exc) THEN OwnedGoals(CallerId(token)) ELSE <<>>)
    /\ UNCHANGED <<tables, now, issued, regs, registered>>

\* one entry of the progress list; percentage is the quotient num/den, kept as a pair
ProgressEntry(goal, current) ==
    [goal_type |-> goal.goal_type, target |-> goal.target_value, current |-> current,
     percentage |-> IF goal.target_value > 0
                      THEN [num |-> current * 100, den |-> goal.target_value]
                      ELSE [num |-> 0, den |-> 1]]

\* the loop of get_goal_progress: goals of another type add nothing
RECURSIVE Progress(_, _)
Progress(gs, ws) ==
    IF Len(gs) = 0 THEN <<>>
    ELSE LET goal == Head(gs)
             entry == IF goal.goal_type = "calories"
                        THEN <<ProgressEntry(goal, SumSeq(Calories(ws)))>>
                      ELSE IF goal.goal_type = "duration"
                        THEN <<ProgressEntry(goal, SumSeq(Durations(ws)))>>
                      ELSE <<>>
         IN  entry \o Progress(Tail(gs), ws)

\* GET /goals/progress
get_goal_progress(token) ==
    LET exc == OwnerExc(token) IN
    /\ resp' = Answer("get_goal_progress", token, <<>>, exc, "Invalid token", "",
                      IF Completed(token, exc)
                        THEN Progress(OwnedGoals(CallerId(token)), OwnedWorkouts(CallerId(token)))
                        ELSE <<>>)
    /\ UNCHANGED <<tables, now, issued, regs, registered>>

(***************************************************************************)
(* Categories and songs: no owner.                                         *)
(***************************************************************************)
\* the INSERT of a category: name is UNIQUE
CategoryExc(token, category) ==
    LET e == DecodeOnlyExc(token) IN
    IF e # "none" THEN e
    ELSE IF \E i \in 1..Len(categories) : categories[i].name = category.name THEN "IntegrityError"
    ELSE "none"

\* POST /categories/
create_category(token, category) ==
    LET exc == CategoryExc(token, category) IN
    /\ categories' = IF Completed(token, exc)
                       THEN Append(categories, [id |-> NextId(categories), name |-> category.name,
                                                description |-> category.description])
                       ELSE categories
    /\ resp' = Answer("create_category", token, category, exc, "Invalid token",
                      "Category created successfully", <<>>)
    /\ UNCHANGED <<users, workouts, goals, songs, playlists, playlist_songs, now, issued, regs, registered>>

\* GET /categories/
get_categories(token) ==
    LET exc == DecodeOnlyExc(token) IN
    /\ resp' = Answer("get_categories", token, <<>>, exc, "Invalid token", "",
                      IF Completed(token, exc) THEN categories ELSE <<>>)
    /\ UNCHANGED <<tables, now, issued, regs, registered>>

\* POST /songs/ declares the pydantic model `song` next to `file = File(...)`: the
\* body is then read as a form, whose field "song" is never an object, so request
\* validation answers 422 before the handler body runs (oauth2_scheme, a
\* dependency, has answered 401 before that when there is no bearer token)
SongBodyValidates == FALSE

\* db_song = Song(...)
NewSongRow(song, filename) ==
    [id |-> NextId(songs), title |-> song.title, artist |-> song.artist,
     duration |-> song.duration, file_path |-> <<"uploads/songs/", filename>>,
     genre |-> song.genre, bpm |-> song.bpm]

\* POST /songs/
create_song(token, song, filename) ==
    LET exc == DecodeOnlyExc(token)
        arg == [song |-> song, filename |-> filename]
    IN
    /\ songs' = IF SongBodyValidates /\ Completed(token, exc)
                  THEN Append(songs, NewSongRow(song, filename))
                  ELSE songs
    /\ resp' = IF ~SongBodyValidates /\ token.kind # "none"
                 THEN Response("create_song", token, arg, 422,
                               "Input should be a valid dictionary or object to extract fields from",
                               <<>>)
                 ELSE Answer("create_song", token, arg, exc, "Invalid token",
                             "Song added successfully", <<>>)
    /\ UNCHANGED <<users, workouts, goals, playlists, playlist_songs, categories, now, issued, regs, registered>>

\* response_model=List[SongResponse]
SongResponse(s) ==
    [id |-> s.id, title |-> s.title, artist |-> s.artist, duration |-> s.duration,
     genre |-> s.genre, bpm |-> s.bpm]

SongResponses(rows) == [i \in 1..Len(rows) |-> SongResponse(rows[i])]

\* GET /songs/
get_songs(token) ==
    LET exc == DecodeOnlyExc(token) IN
    /\ resp' = Answer("get_songs", token, <<>>, exc, "Invalid token", "",
                      IF Completed(token, exc) THEN SongResponses(songs) ELSE <<>>)
    /\ UNCHANGED <<tables, now, issued, regs, registered>>

\* recommended_bpm, read with the lower-cased workout type: <<>> for a type it does
\* not list
RecommendedBpm(workout_type) ==
    IF workout_type = "running" THEN <<140, 160>>
    ELSE IF workout_type = "walking" THEN <<120, 140>>
    ELSE IF workout_type = "cycling" THEN <<130, 150>>
    ELSE IF workout_type = "hiit" THEN <<150, 170>>
    ELSE IF workout_type = "yoga" THEN <<60, 90>>
    ELSE IF workout_type = "strength" THEN <<130, 150>>
    ELSE <<>>

\* the lower-case form of each upper-case ASCII letter
LowerCase ==
    [A |-> "a", B |-> "b", C |-> "c", D |-> "d", E |-> "e", F |-> "f", G |-> "g",
     H |-> "h", I |-> "i", J |-> "j", K |-> "k", L |-> "l", M |-> "m", N |-> "n",
     O |-> "o", P |-> "p", Q |-> "q", R |-> "r", S |-> "s", T |-> "t", U |-> "u",
     V |-> "v", W |-> "w", X |-> "x", Y |-> "y", Z |-> "z"]

LowerChar(c) == IF c \in DOMAIN LowerCase THEN LowerCase[c] ELSE c

\* workout_type.lower(): letter by letter (ASCII letters; other characters are kept)
RECURSIVE Lower(_)
Lower(workout_type) ==
    IF workout_type = "" THEN ""
    ELSE LowerChar(SubSeq(workout_type, 1, 1)) \o Lower(Tail(workout_type))

\* f"{min_bpm}-{max_bpm}"
BpmRangeText(range) == ToString(range[1]) \o "-" \o ToString(range[2])

\* the value the function get_recommended_music returns: the route has no
\* response_model, the songs are the whole rows (a NULL bpm is in no range)
RecommendedMusicBody(workout_type) ==
    LET lowered == Lower(workout_type)
        range == RecommendedBpm(lowered)
    IN
    IF range = <<>> THEN [message |-> "No specific recommendations for this workout type"]
    ELSE [workout_type |-> lowered,
          recommended_bpm_range |-> BpmRangeText(range),
          songs |-> SelectSeq(songs, LAMBDA s : s.bpm # None /\ s.bpm[1] >= range[1]
                                                 /\ s.bpm[1] <= range[2])]

\* GET /workouts/recommended_music is registered after GET /workouts/{workout_id},
\* which matches the path first: workout_id = "recommended_music" is no integer
\* and the request is answered 422 before any handler body runs
RecommendedMusicShadowed == TRUE

\* GET /workouts/recommended_music?workout_type=...
get_recommended_music(token, workout_type) ==
    LET exc == DecodeOnlyExc(token) IN
    /\ resp' = IF RecommendedMusicShadowed /\ token.kind # "none"
                 THEN Response("get_recommended_music", token, workout_type, 422,
                               "Input should be a valid integer, unable to parse string as an integer",
                               <<>>)
                 ELSE Answer("get_recommended_music", token, workout_type, exc, "Invalid token", "",
                             IF Completed(token, exc)
                               THEN <<RecommendedMusicBody(workout_type)>> ELSE <<>>)
    /\ UNCHANGED <<tables, now, issued, regs, registered>>

(***************************************************************************)
(* Playlists and their songs.                                              *)
(***************************************************************************)
OwnedPlaylists(uid) == SelectSeq(playlists, LAMBDA p : p.user_id = uid)

\* POST /playlists/
create_playlist(token, playlist) ==
    LET exc == OwnerExc(token) IN
    /\ playlists' = IF Completed(token, exc)
                      THEN Append(playlists, [id |-> NextId(playlists), user_id |-> CallerId(token),
                                              name |-> playlist.name,
                                              description |-> playlist.description,
                                              is_workout_playlist |-> playlist.is_workout_playlist])
                      ELSE playlists
    /\ resp' = Answer("create_playlist", token, playlist, exc, "Invalid token",
                      "Playlist created successfully", <<>>)
    /\ UNCHANGED <<users, workouts, goals, songs, playlist_songs, categories, now, issued, regs, registered>>

\* response_model=List[PlaylistResponse]
PlaylistResponse(p) ==
    [id |-> p.id, name |-> p.name, description |-> p.description,
     is_workout_playlist |-> p.is_workout_playlist]

PlaylistResponses(rows) == [i \in 1..Len(rows) |-> PlaylistResponse(rows[i])]

\* GET /playlists/
get_playlists(token) ==
    LET exc == OwnerExc(token) IN
    /\ resp' = Answer("get_playlists", token, <<>>, exc, "Invalid token", "",
                      IF Completed(token, exc)
                        THEN PlaylistResponses(OwnedPlaylists(CallerId(token))) ELSE <<>>)
    /\ UNCHANGED <<tables, now, issued, regs, registered>>

SongsOfPlaylist(playlist_id) == SelectSeq(playlist_songs, LAMBDA ps : ps.playlist_id = playlist_id)

\* POST /playlists/{playlist_id}/songs/{song_id}: the user is looked up and not read
add_song_to_playlist(token, playlist_id, song_id) ==
    LET exc == DecodeOnlyExc(token)
        max_position == Len(SongsOfPlaylist(playlist_id))
    IN
    /\ playlist_songs' = IF Completed(token, exc)
                           THEN Append(playlist_songs,
                                       [id |-> NextId(playlist_songs), playlist_id |-> playlist_id,
                                        song_id |-> song_id, position |-> max_position + 1])
                           ELSE playlist_songs
    /\ resp' = Answer("add_song_to_playlist", token, [playlist_id |-> playlist_id, song_id |-> song_id],
                      exc, "Invalid token", "Song added to playlist", <<>>)
    /\ UNCHANGED <<users, workouts, goals, songs, playlists, categories, now, issued, regs, registered>>

PlaylistSongQuery(playlist_id, song_id) ==
    SelectSeq(playlist_songs, LAMBDA ps : ps.playlist_id = playlist_id /\ ps.song_id = song_id)

RemoveSongExc(token, playlist_id, song_id) ==
    LET e == DecodeOnlyExc(token) IN
    IF e # "none" THEN e
    ELSE IF PlaylistSongQuery(playlist_id, song_id) = <<>> THEN "HTTPException404"
    ELSE "none"

\* DELETE /playlists/{playlist_id}/songs/{song_id}
remove_song_from_playlist(token, playlist_id, song_id) ==
    LET exc == RemoveSongExc(token, playlist_id, song_id)
        target == Head(PlaylistSongQuery(playlist_id, song_id))
    IN
    /\ playlist_songs' = IF Completed(token, exc)
                           THEN SelectSeq(playlist_songs, LAMBDA ps : ps # target)
                           ELSE playlist_songs
    /\ resp' = Answer("remove_song_from_playlist", token,
                      [playlist_id |-> playlist_id, song_id |-> song_id],
                      exc, "Invalid token", "Song removed from playlist", <<>>)
    /\ UNCHANGED <<users, workouts, goals, songs, playlists, categories, now, issued, regs, registered>>

\* the playlist_songs rows of a playlist joined to an existing song
JoinedRows(playlist_id) ==
    SelectSeq(SongsOfPlaylist(playlist_id),
              LAMBDA ps : \E i \in 1..Len(songs) : songs[i].id = ps.song_id)

SongById(song_id) == Head(SelectSeq(songs, LAMBDA s : s.id = song_id))

\* ORDER BY position: every arrangement of the joined rows with positions ascending
\* (rows of equal position come in an order the store does not fix)
PositionOrders(playlist_id) ==
    LET rows == JoinedRows(playlist_id)
        n == Len(rows)
    IN  {[i \in 1..n |-> rows[perm[i]]] :
            perm \in {f \in [1..n -> 1..n] :
                        /\ \A i, j \in 1..n : i # j => f[i] # f[j]
                        /\ \A i, j \in 1..n : i < j => rows[f[i]].position <= rows[f[j]].position}}

\* Query.all() of the single entity Song: each song once, at the place of the
\* first joined row that names it
RECURSIVE UniqueSongs(_)
UniqueSongs(order) ==
    IF order = <<>> THEN <<>>
    ELSE LET n == Len(order)
             front == UniqueSongs(SubSeq(order, 1, n - 1))
             song == SongById(order[n].song_id)
         IN  IF \E i \in 1..(n - 1) : order[i].song_id = order[n].song_id
               THEN front ELSE Append(front, song)

\* GET /playlists/{playlist_id}/songs
get_playlist_songs(token, playlist_id) ==
    LET exc == DecodeOnlyExc(token) IN
    /\ \E order \in PositionOrders(playlist_id) :
          resp' = Answer("get_playlist_songs", token, playlist_id, exc, "Invalid token", "",
                         IF Completed(token, exc)
                           THEN SongResponses(UniqueSongs(order)) ELSE <<>>)
    /\ UNCHANGED <<tables, now, issued, regs, registered>>

Init ==
    /\ users = <<>> /\ workouts = <<>> /\ goals = <<>> /\ songs = <<>>
    /\ playlists = <<>> /\ playlist_songs = <<>> /\ categories = <<>>
    /\ now = 0
    /\ issued = {}
    /\ regs = [s \in 1..MaxInflight |-> IdleReg]
    /\ registered = [u \in Usernames |-> None]
    /\ resp = NoResponse

(***************************************************************************)
(* Accounts: registration and login with every kind of password.           *)
(***************************************************************************)
NextAccounts ==
    \/ \E u \in Usernames, e \in Emails, p \in Passwords, s \in Salts :
          Len(users) < MaxRows /\ create_user(u, e, p, s)
    \/ \E u \in Usernames, p \in Passwords :
          (LoginExc(u, p) = "none" => Cardinality(issued \cup {create_access_token(u)}) <= MaxIssued)
          /\ login(u, p)
    \/ Tick

SpecAccounts == Init /\ [][NextAccounts]_vars

(***************************************************************************)
(* Overlapping registrations.                                              *)
(***************************************************************************)
NextRace ==
    \/ \E slot \in 1..MaxInflight, u \in Usernames, e \in Emails, p \in {PwShortA, PwShortB} :
          Len(users) < MaxRows /\ create_user_begin(slot, u, e, p, 1)
    \/ \E slot \in 1..MaxInflight : create_user_commit(slot)

SpecRace == Init /\ [][NextRace]_vars

(***************************************************************************)
(* Inputs of the resource handlers.                                        *)
(***************************************************************************)
FirstWorkout ==
    [workout_type |-> "running", duration |-> 30, calories_burned |-> 250, playlist_id |-> None]
SecondWorkout ==
    [workout_type |-> "yoga", duration |-> 45, calories_burned |-> 120, playlist_id |-> Some(1)]
WorkoutPayloads == {FirstWorkout, SecondWorkout}
OnePayload(S) == CHOOSE x \in S : TRUE
GoalPayloads ==
    {[goal_type |-> "calories", target_value |-> 500, deadline |-> 86400],
     [goal_type |-> "duration", target_value |-> 0, deadline |-> 86400],
     [goal_type |-> "weight", target_value |-> 70, deadline |-> 86400]}
PlaylistPayloads ==
    {[name |-> "cardio", description |-> "fast", is_workout_playlist |-> TRUE]}
SongPayloads ==
    {[title |-> "Run", artist |-> "X", duration |-> 200, genre |-> "pop", bpm |-> Some(150)]}
CategoryPayloads == {[name |-> "cardio", description |-> None]}
RowIds == 1..MaxRowId

\* room for one more row in a table, and for the id it gets
Room(table, rows) == Len(table) < rows /\ NextId(table) <= MaxRowId

\* a registration with the account's own email and a short password
RegisterPlain(u) == create_user(u, EmailOf(u), PwShortA, 1)

\* login, while the model has room for the token
LoginBounded(u, p) ==
    /\ LoginExc(u, p) = "none" => Cardinality(issued \cup {create_access_token(u)}) <= MaxIssued
    /\ login(u, p)

\* the bearer tokens clients hold (every token a login has issued) or no token
HeldTokens == issued \cup {NoToken}

(***************************************************************************)
(* Workouts of two users.                                                  *)
(***************************************************************************)
NextWorkouts ==
    \/ \E u \in Usernames : RegisterPlain(u)
    \/ \E u \in Usernames : LoginBounded(u, PwShortA)
    \/ \E t \in HeldTokens, w \in WorkoutPayloads : Room(workouts, MaxRows) /\ create_workout(t, w)
    \/ \E t \in HeldTokens, id \in RowIds : get_workout(t, id)
    \/ \E t \in HeldTokens, id \in RowIds, w \in WorkoutPayloads : update_workout(t, id, w)
    \/ \E t \in HeldTokens, id \in RowIds : delete_workout(t, id)
    \/ \E t \in HeldTokens : get_workouts(t)
    \/ \E t \in HeldTokens : get_workout_stats(t)

SpecWorkouts == Init /\ [][NextWorkouts]_vars

(***************************************************************************)
(* Playlists and their songs, two users.                                   *)
(***************************************************************************)
PlaylistIds == 1..1
SongIds == 1..2

NextPlaylists ==
    \/ \E u \in Usernames : RegisterPlain(u)
    \/ \E u \in Usernames : LoginBounded(u, PwShortA)
    \/ \E t \in HeldTokens, p \in PlaylistPayloads : Room(playlists, MaxRows) /\ create_playlist(t, p)
    \/ \E t \in HeldTokens, sg \in SongPayloads : Room(songs, MaxSongRows) /\ create_song(t, sg, "run.mp3")
    \/ \E t \in HeldTokens, pl \in PlaylistIds, sg \in SongIds :
          Room(playlist_songs, MaxRows) /\ add_song_to_playlist(t, pl, sg)
    \/ \E t \in HeldTokens, pl \in PlaylistIds, sg \in SongIds : remove_song_from_playlist(t, pl, sg)
    \/ \E t \in HeldTokens, pl \in PlaylistIds : get_playlist_songs(t, pl)
    \/ \E t \in HeldTokens : get_playlists(t)

SpecPlaylists == Init /\ [][NextPlaylists]_vars

(***************************************************************************)
(* The owner-scoped lists: workouts, goals and playlists of two users.     *)
(***************************************************************************)
\* the token a login at this moment issues to u
TokenOf(u) == create_access_token(u)

\* the three tables are read and written by disjoint handlers: a behaviour fills one
\* of them, the other two stay empty
OnlyTable(others) == \A t \in others : t = <<>>

NextOwned ==
    \/ \E u \in Usernames : RegisterPlain(u)
    \/ \E u \in Usernames, w \in WorkoutPayloads :
          /\ Room(workouts, MaxRows) /\ OnlyTable({goals, playlists})
          /\ create_workout(TokenOf(u), w)
    \/ \E u \in Usernames, id \in RowIds, w \in WorkoutPayloads :
          update_workout(TokenOf(u), id, w)
    \/ \E u \in Usernames, id \in RowIds : delete_workout(TokenOf(u), id)
    \/ \E u \in Usernames : get_workouts(TokenOf(u))
    \/ \E u \in Usernames, g \in GoalPayloads :
          /\ Room(goals, MaxRows) /\ OnlyTable({workouts, playlists})
          /\ create_goal(TokenOf(u), g)
    \/ \E u \in Usernames : get_goals(TokenOf(u))
    \/ \E u \in Usernames, p \in PlaylistPayloads :
          /\ Room(playlists, MaxRows) /\ OnlyTable({workouts, goals})
          /\ create_playlist(TokenOf(u), p)
    \/ \E u \in Usernames : get_playlists(TokenOf(u))

SpecOwned == Init /\ [][NextOwned]_vars

(***************************************************************************)
(* Every protected endpoint, with every kind of token, as time passes.     *)
(* One account exists; "bob" is a subject no user has.                     *)
(***************************************************************************)
WrongKey == "another-key"

RequestTokens ==
    issued
    \cup {NoToken, GarbageToken}
    \cup {JwtEncode("alice", now + ACCESS_TOKEN_EXPIRE_MINUTES * 60, WrongKey)}
    \cup {[t EXCEPT !.sub = "bob"] : t \in issued}
    \cup {create_access_token("bob")}

NextProtected ==
    \/ RegisterPlain("alice")
    \/ LoginBounded("alice", PwShortA)
    \/ Tick
    \/ \E t \in RequestTokens : Room(workouts, 1) /\ create_workout(t, OnePayload(WorkoutPayloads))
    \/ \E t \in RequestTokens : get_workout(t, 1)
    \/ \E t \in RequestTokens : update_workout(t, 1, OnePayload(WorkoutPayloads))
    \/ \E t \in RequestTokens : delete_workout(t, 1)
    \/ \E t \in RequestTokens : get_workouts(t)
    \/ \E t \in RequestTokens : get_workout_stats(t)
    \/ \E t \in RequestTokens : get_recommended_music(t, "running")
    \/ \E t \in RequestTokens : Room(goals, 1) /\ create_goal(t, OnePayload(GoalPayloads))
    \/ \E t \in RequestTokens : get_goals(t)
    \/ \E t \in RequestTokens : get_goal_progress(t)
    \/ \E t \in RequestTokens : Room(categories, 1) /\ create_category(t, OnePayload(CategoryPayloads))
    \/ \E t \in RequestTokens : get_categories(t)
    \/ \E t \in RequestTokens : Room(songs, 1) /\ create_song(t, OnePayload(SongPayloads), "run.mp3")
    \/ \E t \in RequestTokens : get_songs(t)
    \/ \E t \in RequestTokens : Room(playlists, 1) /\ create_playlist(t, OnePayload(PlaylistPayloads))
    \/ \E t \in RequestTokens : get_playlists(t)
    \/ \E t \in RequestTokens : Room(playlist_songs, 1) /\ add_song_to_playlist(t, 1, 1)
    \/ \E t \in RequestTokens : remove_song_from_playlist(t, 1, 1)
    \/ \E t \in RequestTokens : get_playlist_songs(t, 1)

SpecProtected == Init /\ [][NextProtected]_vars

(***************************************************************************)
(* Claims.                                                                 *)
(***************************************************************************)
WorkoutIdOps == {"get_workout", "update_workout", "delete_workout"}
RequestWorkoutId(r) == IF r.op = "update_workout" THEN r.arg.workout_id ELSE r.arg
RowsWithId(table, id) == SelectSeq(table, LAMBDA row : row.id = id)

\* the step answers a request: the clock did not tick and no request merely began
Answered == now' = now /\ \A sl \in DOMAIN regs : regs'[sl].st = "pending" => regs[sl].st = "pending"

\* the request answered in this step carries a token that authenticates a user
AuthenticatedStep == resp'.token.kind = "jwt" /\ OwnerExc(resp'.token) = "none"

\* C1: get, update or delete of a workout id by an authenticated user who does not
\* own a row with that id (the row is another user's, or no row has the id) is
\* answered 404 and leaves the workouts unchanged; get by the owner returns the row.
C1_WorkoutOwnershipGate ==
    [][(Answered /\ resp'.op \in WorkoutIdOps /\ AuthenticatedStep) =>
         LET rows == RowsWithId(workouts, RequestWorkoutId(resp'))
             caller == CallerId(resp'.token)
         IN  /\ (rows = <<>> \/ rows[1].user_id # caller) =>
                   (resp'.status = 404 /\ workouts' = workouts)
             /\ (rows # <<>> /\ rows[1].user_id = caller /\ resp'.op = "get_workout") =>
                   (resp'.status = 200 /\ resp'.body = <<rows[1]>>)]_vars

PlaylistSongOps == {"get_playlist_songs", "add_song_to_playlist", "remove_song_from_playlist"}
RequestPlaylistId(r) == IF r.op = "get_playlist_songs" THEN r.arg ELSE r.arg.playlist_id

\* C2: a request that lists, adds to or removes from the songs of a playlist, made
\* by anyone but the playlist's owner, is not answered with the songs (no 200) and
\* leaves the playlist_songs rows as they were.
C2_PlaylistOwnershipGate ==
    [][(Answered /\ resp'.op \in PlaylistSongOps) =>
         LET pls == RowsWithId(playlists, RequestPlaylistId(resp'))
             owner == AuthenticatedStep /\ CallerId(resp'.token) = pls[1].user_id
         IN  (pls # <<>> /\ ~owner) =>
                (resp'.status # 200 /\ playlist_songs' = playlist_songs)]_vars

ProtectedOps ==
    {"create_workout", "get_workout", "update_workout", "delete_workout", "get_workouts",
     "get_workout_stats", "get_recommended_music", "create_goal", "get_goals",
     "get_goal_progress", "create_category", "get_categories", "create_song", "get_songs",
     "create_playlist", "get_playlists", "add_song_to_playlist", "remove_song_from_playlist",
     "get_playlist_songs"}

\* C3: on every protected endpoint a request whose token is correctly signed and
\* unexpired, with a subject that is no user's username, is answered 401 and
\* leaves every table unchanged.
C3_UnknownSubjectRejected ==
    [][(/\ Answered
        /\ resp'.op \in ProtectedOps
        /\ resp'.token.kind = "jwt"
        /\ resp'.token.mac = <<SECRET_KEY, resp'.token.sub, resp'.token.exp>>
        /\ resp'.token.exp > now
        /\ \A i \in 1..Len(users) : users[i].username # resp'.token.sub)
       => (resp'.status = 401 /\ tables' = tables)]_vars

\* C4: on every protected endpoint a request with no bearer token, with a malformed
\* token or with a token whose signature is invalid is answered 401 and leaves
\* every table unchanged.
C4_InvalidTokenRejected ==
    [][(/\ Answered
        /\ resp'.op \in ProtectedOps
        /\ \/ resp'.token.kind # "jwt"
           \/ resp'.token.mac # <<SECRET_KEY, resp'.token.sub, resp'.token.exp>>)
       => (resp'.status = 401 /\ tables' = tables)]_vars

CreateOps == {"create_workout", "create_goal", "create_playlist"}
TableOf(op) == IF op = "create_workout" THEN workouts
               ELSE IF op = "create_goal" THEN goals ELSE playlists
TableOfNext(op) == IF op = "create_workout" THEN workouts'
                   ELSE IF op = "create_goal" THEN goals' ELSE playlists'
IdOfUsername(u) == (CHOOSE i \in 1..Len(users) : users[i].username = u)

\* C5: a login at time t issues a token with the user's name as subject and expiry
\* t + 30 minutes; a protected request carrying an issued token is answered 401
\* once now >= expiry and is never answered 401 before; the rows it creates
\* belong to the token's subject.
C5_TokenLifetime ==
    [][Answered =>
        /\ (resp'.op = "login" /\ resp'.status = 200) =>
              /\ resp'.body[1].access_token.sub = resp'.arg.username
              /\ resp'.body[1].access_token.exp = now + 30 * 60
              /\ resp'.body[1].access_token \in issued'
        /\ (resp'.op \in ProtectedOps /\ resp'.token \in issued) =>
              /\ (now >= resp'.token.exp) => resp'.status = 401
              /\ (now < resp'.token.exp) => resp'.status # 401
              /\ (resp'.op \in CreateOps /\ TableOfNext(resp'.op) # TableOf(resp'.op)) =>
                    LET t == TableOfNext(resp'.op) IN
                    users[IdOfUsername(resp'.token.sub)].id = t[Len(t)].user_id]_vars

\* C6: a registration with a username that a user already has is answered 400 and
\* adds no row and changes no row; usernames are pairwise distinct and emails are
\* pairwise distinct in every state.
C6_DuplicateUsernameConflict ==
    [][Answered =>
        /\ (resp'.op = "create_user"
            /\ \E i \in 1..Len(users) : users[i].username = resp'.arg.username)
              => (resp'.status = 400 /\ users' = users)
        /\ \A i, j \in 1..Len(users') : i # j =>
              /\ users'[i].username # users'[j].username
              /\ users'[i].email # users'[j].email]_vars

\* C7: of two registrations of one unused username that are in flight at the same
\* time, exactly one succeeds and adds the single row of that username, and the
\* other is answered with the conflict status 400.
C7_ConcurrentRegister ==
    \A i, j \in DOMAIN regs :
        (/\ i # j
         /\ regs[i].st = "done" /\ regs[j].st = "done"
         /\ j \in regs[i].peers /\ i \in regs[j].peers
         /\ regs[i].fresh /\ regs[j].fresh
         /\ regs[i].username = regs[j].username)
        => /\ {regs[i].status, regs[j].status} = {200, 400}
           /\ Cardinality({k \in 1..Len(users) : users[k].username = regs[i].username}) = 1

Unused(u) == \A i \in 1..Len(users) : users[i].username # u
RegisteredNext(u) == \E i \in 1..Len(users') : users'[i].username = u
LoginGranted(r, u) ==
    /\ r.status = 200
    /\ Len(r.body) = 1
    /\ r.body[1].token_type = "bearer"
    /\ r.body[1].access_token.kind = "jwt"
    /\ r.body[1].access_token.sub = u

NulFree(p) == \A i \in 1..Len(p) : p[i] # 0

\* C8 as stated (a valid password read as one without a NUL byte): a registration
\* with an unused username succeeds; a later login with the registered password
\* succeeds with a bearer token whose subject is the username; a login with an
\* unregistered username or with another password is answered 401 and issues no
\* token; login changes no table.
C8_RegisterThenLogin ==
    [][(Answered /\ resp'.op \in {"create_user", "login"} /\ NulFree(resp'.arg.password)) =>
        /\ (resp'.op = "create_user" /\ Unused(resp'.arg.username)) =>
              (resp'.status = 200 /\ RegisteredNext(resp'.arg.username))
        /\ (resp'.op = "login") =>
              /\ tables' = tables
              /\ IF registered[resp'.arg.username] = Some(resp'.arg.password)
                   THEN LoginGranted(resp', resp'.arg.username)
                   ELSE resp'.status = 401 /\ resp'.body = <<>> /\ issued' = issued]_vars

ListOps == {"get_workouts", "get_goals", "get_playlists"}
ListedTable(op) == IF op = "get_workouts" THEN workouts
                   ELSE IF op = "get_goals" THEN goals ELSE playlists

\* the token is correctly signed, unexpired, and its subject is a user
ValidBearer(token) ==
    /\ token.kind = "jwt"
    /\ token.mac = <<SECRET_KEY, token.sub, token.exp>>
    /\ token.exp > now
    /\ \E i \in 1..Len(users) : users[i].username = token.sub

OwnerIdOf(token) == users[IdOfUsername(token.sub)].id
PosOf(table, id) == CHOOSE k \in 1..Len(table) : table[k].id = id

\* body lists the rows of table owned by uid: each listed row is such a row, with
\* the stored values; each such row is listed; the order is the table's order
ListedExactly(body, table, uid) ==
    /\ \A i \in 1..Len(body) : \E k \in 1..Len(table) :
          /\ table[k].id = body[i].id
          /\ table[k].user_id = uid
          /\ \A f \in DOMAIN body[i] : body[i][f] = table[k][f]
    /\ \A k \in 1..Len(table) : table[k].user_id = uid =>
          \E i \in 1..Len(body) : body[i].id = table[k].id
    /\ \A i, j \in 1..Len(body) : i < j => PosOf(table, body[i].id) < PosOf(table, body[j].id)

\* C9: a list of workouts, goals or playlists requested with a user's valid token
\* is answered 200 with exactly the rows of that table whose user_id is the user's
\* id, in insertion order.
C9_ListsOwnedRows ==
    (resp.op \in ListOps /\ ValidBearer(resp.token)) =>
        /\ resp.status = 200
        /\ ListedExactly(resp.body, ListedTable(resp.op), OwnerIdOf(resp.token))

\* a user's list of workouts came back with a row while another user owns a row,
\* after a row has been deleted
C9_Witness ==
    /\ resp.op = "get_workouts" /\ resp.status = 200 /\ Len(resp.body) = 1
    /\ \E k \in 1..Len(workouts) : workouts[k].user_id # OwnerIdOf(resp.token)
    /\ \E k \in 1..Len(workouts) : workouts[k].id = MaxRowId

\* C10: after create_workout succeeds with a user's token, get_workout of the new
\* row's id with the same token is answered 200 with one record whose workout_type,
\* duration, calories_burned and playlist reference are the payload's and whose
\* owner is the user; create_workout with a valid token succeeds.
C10_CreateGetRoundTrip ==
    (resp.op = "create_workout" /\ ValidBearer(resp.token)) =>
        /\ resp.status = 200
        /\ LET got == GetWorkoutResponse(resp.token, NextId(workouts) - 1) IN
           /\ got.status = 200
           /\ Len(got.body) = 1
           /\ got.body[1].workout_type = resp.arg.workout_type
           /\ got.body[1].duration = resp.arg.duration
           /\ got.body[1].calories_burned = resp.arg.calories_burned
           /\ got.body[1].music_playlist_id = resp.arg.playlist_id
           /\ got.body[1].user_id = OwnerIdOf(resp.token)

\* the second user has created a workout that names a playlist, next to a row of
\* the first user
C10_Witness ==
    /\ resp.op = "create_workout" /\ resp.status = 200
    /\ resp.arg.playlist_id # None
    /\ Len(workouts) = 2
    /\ workouts[1].user_id # workouts[2].user_id

\* C11: an update_workout answered 200 leaves the row of the requested id with
\* workout_type, duration, calories_burned and playlist reference equal to the
\* payload's, its id, user_id and place unchanged, and every other row unchanged.
C11_UpdateOverwritesMutableFields ==
    [][(Answered /\ resp'.op = "update_workout" /\ resp'.status = 200) =>
         LET id == resp'.arg.workout_id
             payload == resp'.arg.workout
         IN  /\ Len(workouts') = Len(workouts)
             /\ \A k \in 1..Len(workouts) :
                   IF workouts[k].id = id
                     THEN /\ workouts'[k].id = id
                          /\ workouts'[k].user_id = workouts[k].user_id
                          /\ workouts'[k].workout_type = payload.workout_type
                          /\ workouts'[k].duration = payload.duration
                          /\ workouts'[k].calories_burned = payload.calories_burned
                          /\ workouts'[k].music_playlist_id = payload.playlist_id
                     ELSE workouts'[k] = workouts[k]]_vars

\* the songs of a playlist's rows, in the order the rows were inserted
AddedOrder(playlist_id) ==
    LET rows == JoinedRows(playlist_id) IN
    [i \in 1..Len(rows) |-> SongResponse(SongById(rows[i].song_id))]

\* C12: the rows of one playlist have pairwise distinct positions, and a listing of
\* the playlist's songs answered 200 gives them in the order they were added.
C12_PositionsDistinct ==
    /\ \A i, j \in 1..Len(playlist_songs) :
          (i # j /\ playlist_songs[i].playlist_id = playlist_songs[j].playlist_id)
             => playlist_songs[i].position # playlist_songs[j].position
    /\ (resp.op = "get_playlist_songs" /\ resp.status = 200) => resp.body = AddedOrder(resp.arg)
====
